---- MODULE Spec2Model ----
(***************************************************************************)
(* Model of mmodel/handler.py: the layered executors TopologicalHandler,   *)
(* MemHandler, PlainHandler and H5Handler.                                 *)
(*                                                                         *)
(* One graph and one list of additional returns are given to the three     *)
(* constructors.  A driver then calls the three executors in turn with the *)
(* same keyword arguments (a round), and may start further rounds.  Each   *)
(* call is a small process: Call (entry of __call__ and initiate), RunNode *)
(* (one iteration of the loop over self.order, the except clause           *)
(* included), Finish, and Return (the caller receives the result or the    *)
(* exception).  Under SpecConcurrent two threads call the executors with   *)
(* no serialization, and the statements of H5Handler.initiate are steps.   *)
(***************************************************************************)
EXTENDS Integers, Sequences, FiniteSets, TLC

\* ------------------------------------------------------------- bounds
\* values handled by the callables are the integers 0..MaxVal
MaxVal == 1
\* rounds of calls the driver makes under SpecRepeat, and calls the two
\* threads make under SpecConcurrent
MaxCalls == 2

Values == 0 .. MaxVal
Modulus == MaxVal + 1
\* the threads that may be inside __call__; the driver below calls from "main"
Threads == {"main", "other"}

\* ------------------------------------------------------------- dicts
EmptyDict == [k \in {} |-> 0]

\* d[k] = v
Put(d, k, v) == [x \in (DOMAIN d) \cup {k} |-> IF x = k THEN v ELSE d[x]]

\* del d[k]
Del(d, k) == [x \in (DOMAIN d) \ {k} |-> d[x]]

Range(s) == {s[j] : j \in DOMAIN s}

\* ------------------------------------------------------------- names
\* value names are single letters; Python compares them by code point
Alphabet == <<"a", "b", "c", "d", "e", "g", "k", "m", "z">>

Ord(name) == CHOOSE j \in DOMAIN Alphabet : Alphabet[j] = name

RECURSIVE Insert(_, _)
Insert(s, x) ==
    IF s = <<>> THEN <<x>>
    ELSE IF Ord(x) < Ord(Head(s)) THEN <<x>> \o s
    ELSE <<Head(s)>> \o Insert(Tail(s), x)

\* sorted(s) for a list of names
Unsorted(s) == s
RECURSIVE sorted(_)
sorted(s) == IF s = <<>> THEN <<>> ELSE Insert(sorted(Tail(s)), Head(s))

\* ------------------------------------------------------------- values
\* A value is a number with its representation: "py" a native Python
\* number, "np" a numpy scalar (what reading an h5 dataset returns),
\* "h5" a stored dataset.
PyVal(v) == [t |-> "py", v |-> v]

\* numpy promotion: an operation with a numpy scalar operand returns one
Promote(args) == IF \E j \in DOMAIN args : args[j].t = "np" THEN "np" ELSE "py"

RECURSIVE SumV(_)
SumV(args) == IF args = <<>> THEN 0 ELSE Head(args).v + SumV(Tail(args))

RECURSIVE ProdV(_)
ProdV(args) == IF args = <<>> THEN 1 ELSE Head(args).v * ProdV(Tail(args))

\* ------------------------------------------------------------- callables
\* node_attr["obj"](**kwargs): the pure callables of the graphs below.
\* The result is [err, tuple, out]: err = "" when the callable returns,
\* tuple tells whether func_output is a sequence, out holds its elements
\* (the single value for a scalar result).
\*   add      sum of the arguments,
\*   inc      sum of the arguments plus one,
\*   multiply product of the arguments,
\*   log      math.log: ValueError on an argument of 0, a Python float,
\*   split    the pair (sum, sum + 1).
Obj(obj, args) ==
    LET s == SumV(args) % Modulus
        one(v, t) == [err |-> "", tuple |-> FALSE, out |-> <<[t |-> t, v |-> v]>>]
    IN CASE obj = "add" -> one(s, Promote(args))
         [] obj = "inc" -> one((s + 1) % Modulus, Promote(args))
         [] obj = "multiply" -> one(ProdV(args) % Modulus, Promote(args))
         [] obj = "log" ->
              IF s = 0 THEN [err |-> "ValueError", tuple |-> FALSE, out |-> <<>>]
              ELSE one(s - 1, "py")
         [] obj = "split" ->
              [err |-> "", tuple |-> TRUE,
               out |-> <<[t |-> Promote(args), v |-> s],
                         [t |-> Promote(args), v |-> (s + 1) % Modulus]>>]

\* ------------------------------------------------------------- graphs
Node(id, obj, sig, rts) == [node |-> id, obj |-> obj, sig |-> sig, returns |-> rts]

\* A graph as the constructors receive it: its nodes in topological order
\* and its declared returns (the names no node of the graph consumes).
Graphs == {
    \* the plan of the specification's example scenario
    [name |-> "example",
     nodes |-> <<Node("add", "add", <<"a", "b">>, <<"c">>),
                 Node("multiply", "multiply", <<"c", "d">>, <<"e">>)>>,
     outputs |-> <<"e">>],
    \* a value consumed by two nodes, two declared returns, a node that may raise
    [name |-> "fork",
     nodes |-> <<Node("add", "add", <<"a", "b">>, <<"c">>),
                 Node("log", "log", <<"c">>, <<"m">>),
                 Node("multiply", "multiply", <<"c", "b">>, <<"g">>)>>,
     outputs |-> <<"g", "m">>],
    \* a node with two returns, one of them consumed by no node
    [name |-> "split",
     nodes |-> <<Node("split", "split", <<"a">>, <<"c", "d">>),
                 Node("log", "log", <<"c">>, <<"e">>)>>,
     outputs |-> <<"e">>],
    \* a node that returns the name it consumes
    [name |-> "rewrite",
     nodes |-> <<Node("inc", "inc", <<"a">>, <<"a">>),
                 Node("log", "log", <<"a">>, <<"e">>)>>,
     outputs |-> <<"e">>],
    \* a name produced again after its last consumer ran
    [name |-> "again",
     nodes |-> <<Node("inc", "inc", <<"a">>, <<"b">>),
                 Node("split", "split", <<"b">>, <<"a", "e">>)>>,
     outputs |-> <<"e">>],
    \* a graph without external inputs
    [name |-> "const",
     nodes |-> <<Node("one", "inc", <<>>, <<"c">>),
                 Node("inc", "inc", <<"c">>, <<"e">>)>>,
     outputs |-> <<"e">>],
    \* a chain of three nodes whose values die at different nodes
    [name |-> "chain",
     nodes |-> <<Node("inc", "inc", <<"a">>, <<"b">>),
                 Node("add", "add", <<"a", "b">>, <<"c">>),
                 Node("multiply", "multiply", <<"b", "c">>, <<"e">>)>>,
     outputs |-> <<"e">>],
    \* a node with one return whose callable returns a pair
    [name |-> "whole",
     nodes |-> <<Node("split", "split", <<"a">>, <<"c">>),
                 Node("inc", "inc", <<"a">>, <<"e">>)>>,
     outputs |-> <<"c", "e">>],
    \* a node that returns the name an earlier node returned
    [name |-> "redo",
     nodes |-> <<Node("inc", "inc", <<"a">>, <<"c">>),
                 Node("add", "add", <<"a", "c">>, <<"c">>),
                 Node("log", "log", <<"c">>, <<"e">>)>>,
     outputs |-> <<"e">>],
    \* a node that is the only consumer of the name it returns
    [name |-> "own",
     nodes |-> <<Node("inc", "inc", <<"a">>, <<"a">>),
                 Node("one", "inc", <<>>, <<"e">>)>>,
     outputs |-> <<"e">>],
    \* a node with three return names whose callable returns a pair
    [name |-> "short",
     nodes |-> <<Node("split", "split", <<"a">>, <<"c", "d", "k">>),
                 Node("log", "log", <<"c">>, <<"e">>)>>,
     outputs |-> <<"e">>]
}

\* ------------------------------------------------------------- mmodel.utility
\* model_returns(graph): the declared returns of the graph
model_returns(g) == g.outputs

\* graph_topological_sort(graph): the (node, node_attr) pairs in plan order
graph_topological_sort(g) == g.nodes

\* number of nodes whose signature has the parameter name
Refs(nodes, name) ==
    Cardinality({j \in DOMAIN nodes : name \in Range(nodes[j].sig)})

AllParams(nodes) == UNION {Range(nodes[j].sig) : j \in DOMAIN nodes}

AllReturns(nodes) == UNION {Range(nodes[j].returns) : j \in DOMAIN nodes}

\* param_counter(graph, add_returns): references by node parameters, plus one
\* for a name that is among the returns handed in
param_counter(g, add_returns) ==
    [name \in AllParams(g.nodes) \cup Range(add_returns) |->
        Refs(g.nodes, name) + (IF name \in Range(add_returns) THEN 1 ELSE 0)]

\* model_signature(graph): the external inputs, the parameters of a node that
\* no earlier node of the plan returns
model_signature(g) ==
    {name \in AllParams(g.nodes) :
        \E j \in DOMAIN g.nodes :
            /\ name \in Range(g.nodes[j].sig)
            /\ \A h \in 1 .. (j - 1) : name \notin Range(g.nodes[h].returns)}

\* ------------------------------------------------------------- node execution
\* the data instance of a call; a strategy uses the fields of its own shape:
\* MemHandler (value_dict, count), PlainHandler value_dict, H5Handler
\* (f, exe_group) with f the handle and exe_group the name of the group
NoGroup == <<>>
NoHandle == 0
NoData == [value_dict |-> EmptyDict, count |-> EmptyDict, f |-> NoHandle,
           exe_group |-> NoGroup]

\* kwargs = {key: value_dict[key] for key in parameters}
Gather(value_dict, parameters) ==
    IF \E j \in DOMAIN parameters : parameters[j] \notin DOMAIN value_dict
    THEN [err |-> "KeyError", args |-> <<>>]
    ELSE [err |-> "", args |-> [j \in DOMAIN parameters |-> value_dict[parameters[j]]]]

\* value_dict.update(dict(zip(returns, func_output))): zip stops at the shorter
RECURSIVE UpdateZip(_, _, _)
UpdateZip(d, rts, out) ==
    IF rts = <<>> \/ out = <<>> THEN d
    ELSE UpdateZip(Put(d, Head(rts), Head(out)), Tail(rts), Tail(out))

\* func_output as one value: the scalar, or the whole sequence (a tuple of
\* numbers; stored in an h5 dataset and read back it is a numpy array)
RawOutput(res) ==
    IF res.tuple THEN [t |-> "tuple", v |-> [j \in DOMAIN res.out |-> res.out[j].v]]
    ELSE res.out[1]

\* the keys of dict(zip(returns, func_output)) in insertion order
RECURSIVE ZipKeys(_, _, _)
ZipKeys(rts, out, seen_keys) ==
    IF rts = <<>> \/ out = <<>> THEN <<>>
    ELSE IF Head(rts) \in seen_keys THEN ZipKeys(Tail(rts), Tail(out), seen_keys)
    ELSE <<Head(rts)>> \o ZipKeys(Tail(rts), Tail(out), seen_keys \cup {Head(rts)})

\* the two branches on len(returns): the raw result under the single name,
\* or the result zipped against the names (a TypeError if it is no sequence)
StoreRaw(value_dict, rts, res) ==
    [err |-> "", d |-> Put(value_dict, rts[1], RawOutput(res))]
StoreOutput(value_dict, rts, res) ==
    IF Len(rts) = 1
    THEN [err |-> "", d |-> Put(value_dict, rts[1], RawOutput(res))]
    ELSE IF ~res.tuple THEN [err |-> "TypeError", d |-> value_dict]
    ELSE [err |-> "", d |-> UpdateZip(value_dict, rts, res.out)]

\* count[key] -= 1
DecrementTwice(c) == c - 2
Decrement(c) == c - 1

\* if count[key] == 0
ReachedZeroOrOne(c) == c <= 1
NeverZero(c) == c < 0
ReachedZero(c) == c = 0

\* for key in parameters: count[key] -= 1; if count[key] == 0: del value_dict[key]
RECURSIVE CountDown(_, _, _)
CountDown(value_dict, count, parameters) ==
    IF parameters = <<>>
    THEN [err |-> "", value_dict |-> value_dict, count |-> count]
    ELSE LET key == Head(parameters) IN
         IF key \notin DOMAIN count
         THEN [err |-> "KeyError", value_dict |-> value_dict, count |-> count]
         ELSE LET c2 == [count EXCEPT ![key] = Decrement(@)] IN
              IF ReachedZero(c2[key])
              THEN IF key \notin DOMAIN value_dict
                   THEN [err |-> "KeyError", value_dict |-> value_dict, count |-> c2]
                   ELSE CountDown(Del(value_dict, key), c2, Tail(parameters))
              ELSE CountDown(value_dict, c2, Tail(parameters))

\* PlainHandler.run_node: [err, data], err = "" when the node ran
PlainRunNode(data, node_attr) ==
    LET kw == Gather(data.value_dict, node_attr.sig) IN
    IF kw.err # "" THEN [err |-> kw.err, data |-> data]
    ELSE LET res == Obj(node_attr.obj, kw.args) IN
         IF res.err # "" THEN [err |-> res.err, data |-> data]
         ELSE LET st == StoreOutput(data.value_dict, node_attr.returns, res) IN
              [err |-> st.err, data |-> [data EXCEPT !.value_dict = st.d]]

\* MemHandler.run_node: as PlainHandler.run_node, then the counter update
MemRunNode(data, node_attr) ==
    LET ran == PlainRunNode(data, node_attr) IN
    IF ran.err # "" THEN ran
    ELSE LET cd == CountDown(ran.data.value_dict, data.count, node_attr.sig) IN
         [err |-> cd.err,
          data |-> [data EXCEPT !.value_dict = cd.value_dict, !.count = cd.count]]

\* ------------------------------------------------------------- h5 store
\* a group of the file: its datasets and its attributes
NewGroup == [data |-> EmptyDict, attrs |-> EmptyDict]

\* H5Handler.read: group[key][()], a numpy value
H5Read(group, key) ==
    IF key \notin DOMAIN group.data THEN [err |-> "KeyError", val |-> PyVal(0)]
    ELSE [err |-> "", val |-> [t |-> "np", v |-> group.data[key].v]]

\* the group has a member of that name
NeverHasName(group, key) == FALSE
HasName(group, key) == key \in DOMAIN group.data

\* H5Handler.write: create_dataset for every item in the order of the dict;
\* create_dataset raises ValueError for a name the group already has
RECURSIVE H5Write(_, _, _)
H5Write(group, keys, vals) ==
    IF keys = <<>> \/ vals = <<>> THEN [err |-> "", group |-> group]
    ELSE IF HasName(group, Head(keys))
    THEN [err |-> "ValueError", group |-> group]
    ELSE H5Write([group EXCEPT !.data = Put(@, Head(keys), [t |-> "h5", v |-> Head(vals).v])],
                 Tail(keys), Tail(vals))

\* kwargs = {key: self.read(key, exe_group) for key in parameters}
RECURSIVE H5Gather(_, _)
H5Gather(group, parameters) ==
    IF parameters = <<>> THEN [err |-> "", args |-> <<>>]
    ELSE LET r == H5Read(group, Head(parameters)) IN
         IF r.err # "" THEN [err |-> r.err, args |-> <<>>]
         ELSE LET rest == H5Gather(group, Tail(parameters)) IN
              [err |-> rest.err,
               args |-> IF rest.err # "" THEN <<>> ELSE <<r.val>> \o rest.args]

\* H5Handler.run_node on the group of the call: [err, group]
H5RunNode(group, node_attr) ==
    LET kw == H5Gather(group, node_attr.sig) IN
    IF kw.err # "" THEN [err |-> kw.err, group |-> group]
    ELSE LET res == Obj(node_attr.obj, kw.args) IN
         IF res.err # "" THEN [err |-> res.err, group |-> group]
         ELSE IF Len(node_attr.returns) = 1
         THEN H5Write(group, node_attr.returns, <<RawOutput(res)>>)
         ELSE IF ~res.tuple THEN [err |-> "TypeError", group |-> group]
         ELSE LET d == UpdateZip(EmptyDict, node_attr.returns, res.out)
                  keys == ZipKeys(node_attr.returns, res.out, {})
              IN H5Write(group, keys, [j \in DOMAIN keys |-> d[keys[j]]])

\* ------------------------------------------------------------- outcomes
\* how a call ends for its caller: a returned value (bare or a tuple) or a
\* raised exception (its class, the node and attributes of its message, and
\* the class of its __cause__)
NoNodeAttr == Node("", "", <<>>, <<>>)

Returned(shape, vals) ==
    [kind |-> "return", shape |-> shape, vals |-> vals, exc |-> "",
     node |-> "", attr |-> NoNodeAttr, cause |-> ""]

Raised(exc, node, attr, cause) ==
    [kind |-> "raise", shape |-> "", vals |-> <<>>, exc |-> exc,
     node |-> node, attr |-> attr, cause |-> cause]

NoOutcome ==
    [kind |-> "none", shape |-> "", vals |-> <<>>, exc |-> "",
     node |-> "", attr |-> NoNodeAttr, cause |-> ""]

\* raise Exception(f"Exception occurred for node {node, node_attr}") from e
SwallowNodeException(node, node_attr, e) == NoOutcome
RaiseNodeException(node, node_attr, e) == Raised("Exception", node, node_attr, e)

\* msg = f"{type(e).__name__} occurred for node {node, node_attr}: {e}"
Note(node, node_attr, e) == [kind |-> e, node |-> node, attr |-> node_attr]

\* H5Handler.raise_node_exception: the attribute is written, the file is
\* closed, the exception is raised; io lists the calls made on the store
H5RaiseWithoutNote(group, node, node_attr, e) ==
    [group |-> group, handle |-> "closed", io |-> <<"close">>,
     exc |-> RaiseNodeException(node, node_attr, e)]
H5RaiseNodeException(group, node, node_attr, e) ==
    [group |-> [group EXCEPT !.attrs = Put(@, "note", Note(node, node_attr, e))],
     handle |-> "closed",
     io |-> <<"attrs", "close">>,
     exc |-> RaiseNodeException(node, node_attr, e)]

\* MemHandler.finish and PlainHandler.finish: the bare value for a single
\* return, else the tuple in the order of returns; a missing name is a KeyError
DictFinishPresent(value_dict, rts) ==
    LET have == SelectSeq(rts, LAMBDA n : n \in DOMAIN value_dict)
    IN Returned("tuple", [j \in DOMAIN have |-> value_dict[have[j]]])
DictFinish(value_dict, rts) ==
    IF \E j \in DOMAIN rts : rts[j] \notin DOMAIN value_dict
    THEN Raised("KeyError", "", NoNodeAttr, "")
    ELSE IF Len(rts) = 1 THEN Returned("value", <<value_dict[rts[1]]>>)
    ELSE Returned("tuple", [j \in DOMAIN rts |-> value_dict[rts[j]]])

\* the reads of H5Handler.finish
H5Finish(group, rts) ==
    LET got == H5Gather(group, rts) IN
    IF got.err # "" THEN Raised(got.err, "", NoNodeAttr, "")
    ELSE IF Len(rts) = 1 THEN Returned("value", got.args)
    ELSE Returned("tuple", got.args)

\* ------------------------------------------------------------- executors
Handlers == <<"MemHandler", "PlainHandler", "H5Handler">>

\* self.exe_count += 1
SameExeCount(c) == c
NextExeCount(c) == c + 1

\* f"{id(self)}_{self.exe_count}": the identity is fixed for an instance and
\* holds no underscore, so the name determines the count
FirstGroupName(c) == <<"id(self)", 1>>
ExeGroupName(c) == <<"id(self)", c>>

\* for node, node_attr in self.order: the position after this one
SkipIndex(j) == j + 2
NextIndex(j) == j + 1

\* ------------------------------------------------------------- driver inputs
\* bound on len(additional_returns)
MaxAdd == 1

AllNames(g) == AllParams(g.nodes) \cup AllReturns(g.nodes)

\* the names of a set as a sorted list
RECURSIVE SetToSeq(_)
SetToSeq(S) ==
    IF S = {} THEN <<>>
    ELSE LET x == CHOOSE y \in S : \A w \in S : Ord(y) <= Ord(w)
         IN <<x>> \o SetToSeq(S \ {x})

\* the lists given as additional_returns: names of the graph, or the name "z"
\* that the graph does not have
AddReturnsChoices(g) ==
    {SetToSeq(S) : S \in {T \in SUBSET (AllNames(g) \cup {"z"}) : Cardinality(T) <= MaxAdd}}

\* the keyword arguments of a call: the signature of the graph, the signature
\* without one of its names, or with one more name (the first name a node
\* returns, or "z"), each with any values
KwargsKeys(g) ==
    LET sig == model_signature(g)
        more == ({g.nodes[1].returns[1]} \cup {"z"}) \ sig
    IN {sig} \cup {sig \ {n} : n \in sig} \cup {sig \cup {n} : n \in more}

KwargsChoices(g) ==
    UNION {[S -> {PyVal(v) : v \in Values}] : S \in KwargsKeys(g)}

\* ------------------------------------------------------------- state
VARIABLES
    graph,               \* the graph given to the three constructors
    additional_returns,  \* the additional_returns given to them
    returns,             \* self.returns
    order,               \* self.order
    counter,             \* MemHandler: self.counter
    exe_count,           \* H5Handler: self.exe_count
    file,                \* the h5 file: group name -> group
    handles,             \* the h5py.File objects opened so far: "open" or "closed"
    budget,              \* driver: rounds it will make
    round,               \* driver: rounds started
    turn,                \* driver: position in Handlers of the last executor called
    round_kwargs,        \* driver: the keyword arguments of this round
    results,             \* driver: executor -> kwargs -> outcome of the first such call
    pc,                  \* per thread: "idle", "run" (in the loop), "done"
    handler,             \* per thread: the executor being called
    kwargs,              \* per thread: the keyword arguments of the call
    i,                   \* per thread: position in self.order of the next node
    data,                \* per thread: data_instance
    trace,               \* per thread: the methods the call invoked, in order
    io,                  \* per thread: the calls on the h5 store that change it, in order
    outcome,             \* per thread: what the call returned or raised
    loaded,              \* per thread, in initiate: the exe_count read by += 1
    exe_group_name,      \* per thread, in initiate: the local exe_group_name
    alone,               \* per thread: no other call was in initiate during this one's
    named                \* the group names derived so far, in order, each with alone

exec_vars == <<graph, additional_returns, returns, order, counter>>
store_vars == <<exe_count, file, handles>>
driver_vars == <<budget, round, turn, round_kwargs, results>>
call_vars == <<pc, handler, kwargs, i, data, trace, io, outcome>>
race_vars == <<loaded, exe_group_name, alone, named>>
vars == <<exec_vars, store_vars, driver_vars, call_vars, race_vars>>

Event(op, node, err) == [op |-> op, node |-> node, err |-> err]

\* the state after the three constructors ran on graph g
Constructed(g, add, rounds) ==
    /\ graph = g
    /\ additional_returns = add
    /\ returns = sorted(model_returns(g) \o add)
    /\ order = graph_topological_sort(g)
    /\ counter = param_counter(g, add)
    /\ exe_count = 0
    /\ file = EmptyDict
    /\ handles = <<>>
    /\ budget = rounds
    /\ round = 0
    /\ turn = Len(Handlers)
    /\ round_kwargs = EmptyDict
    /\ results = [h \in Range(Handlers) |-> EmptyDict]
    /\ pc = [t \in Threads |-> "idle"]
    /\ handler = [t \in Threads |-> ""]
    /\ kwargs = [t \in Threads |-> EmptyDict]
    /\ i = [t \in Threads |-> 0]
    /\ data = [t \in Threads |-> NoData]
    /\ trace = [t \in Threads |-> <<>>]
    /\ io = [t \in Threads |-> <<>>]
    /\ outcome = [t \in Threads |-> NoOutcome]
    /\ loaded = [t \in Threads |-> 0]
    /\ exe_group_name = [t \in Threads |-> NoGroup]
    /\ alone = [t \in Threads |-> TRUE]
    /\ named = <<>>

Init == \E g \in Graphs : \E add \in AddReturnsChoices(g) : Constructed(g, add, 1)

\* ------------------------------------------------------------- __call__
\* data_instance = self.initiate(**kwargs), for the executor h
Initiate(t, h, kw) ==
    /\ handler' = [handler EXCEPT ![t] = h]
    /\ kwargs' = [kwargs EXCEPT ![t] = kw]
    /\ i' = [i EXCEPT ![t] = 1]
    /\ IF h = "MemHandler"
       THEN /\ data' = [data EXCEPT ![t] = [NoData EXCEPT !.value_dict = kw, !.count = counter]]
            /\ pc' = [pc EXCEPT ![t] = "run"]
            /\ trace' = [trace EXCEPT ![t] = <<Event("initiate", "", "")>>]
            /\ outcome' = [outcome EXCEPT ![t] = NoOutcome]
            /\ io' = [io EXCEPT ![t] = <<>>]
            /\ UNCHANGED store_vars
       ELSE IF h = "PlainHandler"
       THEN /\ data' = [data EXCEPT ![t] = [NoData EXCEPT !.value_dict = kw]]
            /\ pc' = [pc EXCEPT ![t] = "run"]
            /\ trace' = [trace EXCEPT ![t] = <<Event("initiate", "", "")>>]
            /\ outcome' = [outcome EXCEPT ![t] = NoOutcome]
            /\ io' = [io EXCEPT ![t] = <<>>]
            /\ UNCHANGED store_vars
       ELSE LET c == NextExeCount(exe_count)
                name == ExeGroupName(c)
                f == Len(handles) + 1
                keys == SetToSeq(DOMAIN kw)
                w == H5Write(NewGroup, keys, [j \in DOMAIN keys |-> kw[keys[j]]])
            IN /\ exe_count' = c
               /\ handles' = Append(handles, "open")
               /\ IF name \in DOMAIN file
                  THEN \* create_group raises: the exception leaves __call__
                       /\ file' = file
                       /\ data' = [data EXCEPT ![t] = [NoData EXCEPT !.f = f]]
                       /\ pc' = [pc EXCEPT ![t] = "done"]
                       /\ trace' = [trace EXCEPT ![t] = <<Event("initiate", "", "ValueError")>>]
                       /\ outcome' = [outcome EXCEPT ![t] = Raised("ValueError", "", NoNodeAttr, "")]
                       /\ io' = [io EXCEPT ![t] = <<"File", "create_group">>]
                  ELSE /\ file' = Put(file, name, w.group)
                       /\ data' = [data EXCEPT ![t] = [NoData EXCEPT !.f = f, !.exe_group = name]]
                       /\ pc' = [pc EXCEPT ![t] = "run"]
                       /\ trace' = [trace EXCEPT ![t] = <<Event("initiate", "", "")>>]
                       /\ outcome' = [outcome EXCEPT ![t] = NoOutcome]
                       /\ io' = [io EXCEPT ![t] = <<"File", "create_group", "write">>]
    /\ UNCHANGED <<exec_vars, race_vars>>

\* the driver calls the next executor of the round, or starts a round with new
\* keyword arguments
Call(t) ==
    /\ pc[t] = "idle"
    /\ \/ /\ turn < Len(Handlers)
          /\ turn' = turn + 1
          /\ UNCHANGED <<round, round_kwargs>>
          /\ Initiate(t, Handlers[turn + 1], round_kwargs)
       \/ /\ turn = Len(Handlers)
          /\ round < budget
          /\ \E kw \in KwargsChoices(graph) :
                /\ round_kwargs' = kw
                /\ Initiate(t, Handlers[1], kw)
          /\ turn' = 1
          /\ round' = round + 1
    /\ UNCHANGED <<budget, results>>

\* data_instance is a local variable of __call__: every call has its own
SharedInstance(t) == "main"
DataInstance(t) == t

\* one iteration of the loop: run_node in the try block, and
\* raise_node_exception in the except clause
RunNode(t) ==
    /\ pc[t] = "run"
    /\ i[t] <= Len(order)
    /\ LET node_attr == order[i[t]]
           node == node_attr.node
           h == handler[t]
           ran == IF h = "MemHandler" THEN MemRunNode(data[DataInstance(t)], node_attr)
                  ELSE IF h = "PlainHandler" THEN PlainRunNode(data[DataInstance(t)], node_attr)
                  ELSE LET r == H5RunNode(file[data[DataInstance(t)].exe_group], node_attr)
                       IN [err |-> r.err, data |-> data[DataInstance(t)], group |-> r.group]
           failed == IF h = "H5Handler"
                     THEN H5RaiseNodeException(ran.group, node, node_attr, ran.err)
                     ELSE [exc |-> RaiseNodeException(node, node_attr, ran.err)]
           exc == failed.exc
       IN /\ data' = [data EXCEPT ![DataInstance(t)] = ran.data]
          /\ IF ran.err = ""
             THEN /\ trace' = [trace EXCEPT ![t] = Append(@, Event("run_node", node, ""))]
                  /\ i' = [i EXCEPT ![t] = NextIndex(@)]
                  /\ file' = IF h = "H5Handler" THEN [file EXCEPT ![data[DataInstance(t)].exe_group] = ran.group]
                             ELSE file
                  /\ io' = IF h = "H5Handler" THEN [io EXCEPT ![t] = Append(@, "write")] ELSE io
                  /\ UNCHANGED <<pc, outcome, handles>>
             ELSE /\ trace' = [trace EXCEPT ![t] =
                                 @ \o <<Event("run_node", node, ran.err),
                                        Event("raise_node_exception", node, "")>>]
                  /\ IF h = "H5Handler"
                     THEN /\ file' = [file EXCEPT ![data[DataInstance(t)].exe_group] = failed.group]
                          /\ handles' = [handles EXCEPT ![data[DataInstance(t)].f] = failed.handle]
                          /\ io' = [io EXCEPT ![t] = @ \o failed.io]
                     ELSE UNCHANGED <<file, handles, io>>
                  /\ IF exc.kind = "raise"
                     THEN /\ pc' = [pc EXCEPT ![t] = "done"]
                          /\ outcome' = [outcome EXCEPT ![t] = exc]
                          /\ UNCHANGED i
                     ELSE /\ i' = [i EXCEPT ![t] = NextIndex(@)]
                          /\ UNCHANGED <<pc, outcome>>
    /\ UNCHANGED <<exec_vars, exe_count, driver_vars, handler, kwargs, race_vars>>

\* return self.finish(data_instance, self.returns)
Finish(t) ==
    /\ pc[t] = "run"
    /\ i[t] > Len(order)
    /\ LET h == handler[t]
           res == IF h = "H5Handler" THEN H5Finish(file[data[DataInstance(t)].exe_group], returns)
                  ELSE DictFinish(data[DataInstance(t)].value_dict, returns)
       IN /\ outcome' = [outcome EXCEPT ![t] = res]
          /\ trace' = [trace EXCEPT ![t] = Append(@, Event("finish", "", res.exc))]
          \* f.close() comes after the reads
          /\ handles' = IF h = "H5Handler" /\ res.kind = "return"
                        THEN [handles EXCEPT ![data[DataInstance(t)].f] = "closed"]
                        ELSE handles
          /\ io' = IF h = "H5Handler" /\ res.kind = "return"
                   THEN [io EXCEPT ![t] = Append(@, "close")]
                   ELSE io
    /\ pc' = [pc EXCEPT ![t] = "done"]
    /\ UNCHANGED <<exec_vars, exe_count, file, driver_vars, handler, kwargs, i, data, race_vars>>

\* the caller has the result or the exception; the data instance is dropped
Return(t) ==
    /\ pc[t] = "done"
    /\ pc' = [pc EXCEPT ![t] = "idle"]
    /\ results' = [results EXCEPT ![handler[t]] =
                      IF kwargs[t] \in DOMAIN @ THEN @ ELSE Put(@, kwargs[t], outcome[t])]
    /\ data' = [data EXCEPT ![t] = NoData]
    /\ trace' = [trace EXCEPT ![t] = <<>>]
    /\ io' = [io EXCEPT ![t] = <<>>]
    /\ outcome' = [outcome EXCEPT ![t] = NoOutcome]
    /\ i' = [i EXCEPT ![t] = 0]
    /\ UNCHANGED <<exec_vars, store_vars, budget, round, turn, round_kwargs, handler, kwargs,
                   race_vars>>

Next ==
    \/ Call("main")
    \/ RunNode("main")
    \/ Finish("main")
    \/ Return("main")

Spec == Init /\ [][Next]_vars

\* the executors of five graphs with at most one external input, called for
\* MaxCalls rounds; additional_returns is empty, a consumed name, or "z"
RepeatAddReturns(g) == {<<>>, <<g.nodes[2].sig[1]>>, <<"z">>}

RepeatGraphs ==
    {gr \in Graphs : gr.name \in {"split", "rewrite", "again", "const", "chain"}}

InitRepeat ==
    \E g \in RepeatGraphs : \E add \in RepeatAddReturns(g) : Constructed(g, add, MaxCalls)

SpecRepeat == InitRepeat /\ [][Next]_vars

\* ------------------------------------------------------------- concurrent calls
\* Two threads call the executors without serialization.  The statements of
\* H5Handler.initiate are then steps of their own: self.exe_count += 1 reads
\* the attribute and writes it back, and the f-string reads it once more.
\* MemHandler.initiate and PlainHandler.initiate touch nothing that a call
\* writes, and the nodes of the two calls interleave one by one.

\* thread u is inside H5Handler.initiate
InInitiate(u) == pc[u] \in {"load", "store", "name", "create"}

\* the keyword arguments of the concurrent calls: the signature, any values
ConcurrentKwargs(g) == [model_signature(g) -> {PyVal(v) : v \in Values}]

\* a thread enters __call__ on one of the executors
CallConcurrent(t) ==
    /\ pc[t] = "idle"
    /\ round < budget
    /\ round' = round + 1
    /\ \E h \in Range(Handlers) : \E kw \in ConcurrentKwargs(graph) :
          IF h = "H5Handler"
          THEN /\ pc' = [pc EXCEPT ![t] = "load"]
               /\ handler' = [handler EXCEPT ![t] = h]
               /\ kwargs' = [kwargs EXCEPT ![t] = kw]
               /\ alone' = IF \E u \in Threads \ {t} : InInitiate(u)
                           THEN [u \in Threads |-> alone[u] /\ u # t /\ ~InInitiate(u)]
                           ELSE [alone EXCEPT ![t] = TRUE]
               /\ UNCHANGED <<exec_vars, store_vars, i, data, trace, io, outcome,
                              loaded, exe_group_name, named>>
          ELSE Initiate(t, h, kw)
    /\ UNCHANGED <<budget, turn, round_kwargs, results>>

\* self.exe_count += 1, the read
H5Load(t) ==
    /\ pc[t] = "load"
    /\ loaded' = [loaded EXCEPT ![t] = exe_count]
    /\ pc' = [pc EXCEPT ![t] = "store"]
    /\ UNCHANGED <<exec_vars, store_vars, driver_vars, handler, kwargs, i, data, trace, io,
                   outcome, exe_group_name, alone, named>>

\* self.exe_count += 1, the write
H5Store(t) ==
    /\ pc[t] = "store"
    /\ exe_count' = NextExeCount(loaded[t])
    /\ loaded' = [loaded EXCEPT ![t] = 0]
    /\ pc' = [pc EXCEPT ![t] = "name"]
    /\ UNCHANGED <<exec_vars, file, handles, driver_vars, handler, kwargs, i, data, trace, io,
                   outcome, exe_group_name, alone, named>>

\* f = h5py.File(self.h5_filename, "a"); exe_group_name = f"{id(self)}_{self.exe_count}"
H5Name(t) ==
    /\ pc[t] = "name"
    /\ handles' = Append(handles, "open")
    /\ data' = [data EXCEPT ![t] = [NoData EXCEPT !.f = Len(handles) + 1]]
    /\ exe_group_name' = [exe_group_name EXCEPT ![t] = ExeGroupName(exe_count)]
    /\ named' = Append(named, [name |-> ExeGroupName(exe_count), alone |-> alone[t]])
    /\ io' = [io EXCEPT ![t] = <<"File">>]
    /\ pc' = [pc EXCEPT ![t] = "create"]
    /\ UNCHANGED <<exec_vars, exe_count, file, driver_vars, handler, kwargs, i, trace,
                   outcome, loaded, alone>>

\* exe_group = f.create_group(exe_group_name); self.write(kwargs, exe_group)
H5Create(t) ==
    /\ pc[t] = "create"
    /\ LET name == exe_group_name[t]
           keys == SetToSeq(DOMAIN kwargs[t])
           w == H5Write(NewGroup, keys, [j \in DOMAIN keys |-> kwargs[t][keys[j]]])
       IN IF name \in DOMAIN file
          THEN \* create_group raises: the exception leaves __call__
               /\ pc' = [pc EXCEPT ![t] = "done"]
               /\ trace' = [trace EXCEPT ![t] = <<Event("initiate", "", "ValueError")>>]
               /\ outcome' = [outcome EXCEPT ![t] = Raised("ValueError", "", NoNodeAttr, "")]
               /\ io' = [io EXCEPT ![t] = Append(@, "create_group")]
               /\ UNCHANGED <<file, data, i>>
          ELSE /\ file' = Put(file, name, w.group)
               /\ data' = [data EXCEPT ![t].exe_group = name]
               /\ i' = [i EXCEPT ![t] = 1]
               /\ pc' = [pc EXCEPT ![t] = "run"]
               /\ trace' = [trace EXCEPT ![t] = <<Event("initiate", "", "")>>]
               /\ outcome' = [outcome EXCEPT ![t] = NoOutcome]
               /\ io' = [io EXCEPT ![t] = @ \o <<"create_group", "write">>]
    /\ exe_group_name' = [exe_group_name EXCEPT ![t] = NoGroup]
    /\ UNCHANGED <<exec_vars, exe_count, handles, driver_vars, handler, kwargs, loaded, alone,
                   named>>

\* the caller has the result or the exception; the data instance is dropped
ReturnConcurrent(t) ==
    /\ pc[t] = "done"
    /\ pc' = [pc EXCEPT ![t] = "idle"]
    /\ data' = [data EXCEPT ![t] = NoData]
    /\ trace' = [trace EXCEPT ![t] = <<>>]
    /\ io' = [io EXCEPT ![t] = <<>>]
    /\ outcome' = [outcome EXCEPT ![t] = NoOutcome]
    /\ i' = [i EXCEPT ![t] = 0]
    /\ handler' = [handler EXCEPT ![t] = ""]
    /\ kwargs' = [kwargs EXCEPT ![t] = EmptyDict]
    /\ UNCHANGED <<exec_vars, store_vars, driver_vars, race_vars>>

NextConcurrent ==
    \E t \in Threads :
        \/ CallConcurrent(t)
        \/ H5Load(t)
        \/ H5Store(t)
        \/ H5Name(t)
        \/ H5Create(t)
        \/ RunNode(t)
        \/ Finish(t)
        \/ ReturnConcurrent(t)

\* the executors of two graphs: one whose second node may fail, with no
\* additional return, and one of three nodes, with a name that nodes consume
\* as additional return
InitConcurrent ==
    \/ \E g \in Graphs : g.name = "split" /\ Constructed(g, <<>>, MaxCalls)
    \/ \E g \in Graphs : g.name = "chain" /\ Constructed(g, <<"a">>, MaxCalls)

SpecConcurrent == InitConcurrent /\ [][NextConcurrent]_vars

\* ------------------------------------------------------------- properties
Succeeded(t) == pc[t] = "done" /\ outcome[t].kind = "return"

\* the position in the plan of the last node that has the parameter, 0 if none
LastConsumer(name) ==
    LET at == {j \in DOMAIN order : name \in Range(order[j].sig)}
    IN IF at = {} THEN 0 ELSE CHOOSE j \in at : \A h \in at : h <= j

\* the number of elements of the result of a callable: split returns a pair
ResultLen(obj) == IF obj = "split" THEN 2 ELSE 1

\* the return names a node writes: the single name, or as many names as the
\* result has elements
Written(node_attr) ==
    IF Len(node_attr.returns) = 1 THEN Range(node_attr.returns)
    ELSE {node_attr.returns[k] :
            k \in {j \in DOMAIN node_attr.returns : j <= ResultLen(node_attr.obj)}}

\* the names supplied to the call or written by the nodes that ran
Produced(t) ==
    DOMAIN kwargs[t] \cup
    UNION {Written(order[j]) : j \in 1 .. (i[t] - 1) \cap DOMAIN order}

\* the names a node can read from the data instance of the call
Resolvable(t) ==
    IF handler[t] = "H5Handler" THEN DOMAIN file[data[t].exe_group].data
    ELSE DOMAIN data[t].value_dict

\* every parameter is returned by an earlier node or supplied as an input
PlanInvariant(nodes, kw) ==
    \A j \in DOMAIN nodes : \A p \in Range(nodes[j].sig) :
        p \in DOMAIN kw \/ \E h \in 1 .. (j - 1) : p \in Range(nodes[h].returns)

\* the run_node events of the first n nodes of the plan
NodeEvents(n) == [j \in 1 .. n |-> Event("run_node", order[j].node, "")]

\* C1: while a call is in its loop it has invoked initiate and then run_node
\* for the first i - 1 nodes of the plan, one after the other; a call that
\* returns has invoked initiate, run_node once for every node in plan order,
\* and then finish, whatever the strategy.
C1_PlanOrder ==
    \A t \in Threads :
        /\ pc[t] = "run" =>
              /\ i[t] \in 1 .. (Len(order) + 1)
              /\ trace[t] = <<Event("initiate", "", "")>> \o NodeEvents(i[t] - 1)
        /\ Succeeded(t) =>
              trace[t] = <<Event("initiate", "", "")>> \o NodeEvents(Len(order))
                         \o <<Event("finish", "", "")>>

C1_Witness ==
    /\ Succeeded("main")
    /\ handler["main"] = "H5Handler"
    /\ Len(order) = 3
    /\ Len(trace["main"]) = 5

\* C2: when the keyword arguments satisfy the plan invariant, the next node of
\* a running call finds every one of its parameters in the data instance, and
\* no produced name that a node still to run consumes is missing from it.
C2_Resolvable ==
    \A t \in Threads :
        (pc[t] = "run" /\ PlanInvariant(order, kwargs[t])) =>
            \A j \in DOMAIN order : j >= i[t] =>
                \A p \in Range(order[j].sig) :
                    (j = i[t] \/ p \in Produced(t)) => p \in Resolvable(t)

C2_Witness ==
    /\ pc["main"] = "run"
    /\ handler["main"] = "MemHandler"
    /\ PlanInvariant(order, kwargs["main"])
    /\ Len(order) = 3
    /\ i["main"] = 3
    /\ \E p \in Range(order[3].sig) : \E j \in 1 .. 2 : p \in Range(order[j].sig)
    /\ \E n \in DOMAIN kwargs["main"] : n \notin DOMAIN data["main"].value_dict

\* C3: a run_node that raised is the last node the call ran; it is followed by
\* raise_node_exception for that node and by nothing else (no finish), and the
\* call has ended raising the exception that names the node and its attributes
\* and has the error of the node as its cause.
C3_FailureContract ==
    \A t \in Threads : \A k \in DOMAIN trace[t] :
        (trace[t][k].op = "run_node" /\ trace[t][k].err # "") =>
            /\ Len(trace[t]) = k + 1
            /\ i[t] \in DOMAIN order
            /\ trace[t][k].node = order[i[t]].node
            /\ trace[t][k + 1] = Event("raise_node_exception", order[i[t]].node, "")
            /\ pc[t] = "done"
            /\ outcome[t] = Raised("Exception", order[i[t]].node, order[i[t]], trace[t][k].err)

C3_Witness ==
    /\ pc["main"] = "done"
    /\ handler["main"] = "H5Handler"
    /\ outcome["main"].kind = "raise"
    /\ outcome["main"].cause = "ValueError"
    /\ i["main"] = 2
    /\ kwargs["main"] \in DOMAIN results["MemHandler"]
    /\ results["MemHandler"][kwargs["main"]].cause = "ValueError"
    /\ results["PlainHandler"][kwargs["main"]].cause = "ValueError"

\* C4: under MemHandler, right after the last node that consumes a name has
\* run, the name is in value_dict exactly when it is one of self.returns.
C4_EvictedAfterLastConsumer ==
    \A t \in Threads :
        (handler[t] = "MemHandler" /\ pc[t] = "run") =>
            \A n \in AllParams(order) :
                LastConsumer(n) = i[t] - 1 =>
                    (n \in DOMAIN data[t].value_dict <=> n \in Range(returns))

C4_Witness ==
    /\ handler["main"] = "MemHandler"
    /\ pc["main"] = "run"
    /\ \E n \in AllParams(order) :
          /\ LastConsumer(n) = i["main"] - 1
          /\ n \in DOMAIN kwargs["main"]
          /\ n \notin DOMAIN data["main"].value_dict
    /\ \E n \in AllParams(order) :
          /\ LastConsumer(n) < i["main"] - 1
          /\ n \in Range(returns)
          /\ n \in DOMAIN data["main"].value_dict

WrittenAfterLastConsumer(t, n) ==
    \E j \in DOMAIN order :
        /\ LastConsumer(n) < j
        /\ j < i[t]
        /\ n \in Range(order[j].returns)

\* a node still to run consumes the name, or it is one of self.returns
StillReferenced(t, n) ==
    \/ \E j \in DOMAIN order : j >= i[t] /\ n \in Range(order[j].sig)
    \/ n \in Range(returns)

\* C6 as stated: under MemHandler, between nodes and at finish, every name in
\* value_dict is consumed by a node still to run or is one of self.returns.
C6_NoUnreferencedValue ==
    \A t \in Threads :
        (handler[t] = "MemHandler" /\ pc[t] = "run") =>
            \A n \in DOMAIN data[t].value_dict : StillReferenced(t, n)

\* C6 amended: the same for the names that some node of the plan consumes and
\* that no node has written again after their last consumer ran; the names no
\* node consumes are never removed.
C6_ConsumedNamesReferenced ==
    \A t \in Threads :
        (handler[t] = "MemHandler" /\ (pc[t] = "run" \/ Succeeded(t))) =>
            /\ \A n \in DOMAIN data[t].value_dict :
                  (n \in AllParams(order) /\ ~WrittenAfterLastConsumer(t, n)) =>
                      StillReferenced(t, n)
            /\ \A n \in Produced(t) \ AllParams(order) : n \in DOMAIN data[t].value_dict

C6_Witness ==
    /\ handler["main"] = "MemHandler"
    /\ pc["main"] = "run"
    /\ i["main"] > Len(order)
    /\ \E n \in DOMAIN kwargs["main"] \cap AllParams(order) :
          n \notin DOMAIN data["main"].value_dict
    /\ \E n \in DOMAIN data["main"].value_dict : ~StillReferenced("main", n)

\* C7 as stated: when a MemHandler call has returned, the working count of
\* every tracked name is zero (the decrements add up to the precomputed count).
C7_CountsReachZero ==
    \A t \in Threads :
        (handler[t] = "MemHandler" /\ Succeeded(t)) =>
            \A n \in DOMAIN counter : data[t].count[n] = 0

\* C7 amended: the decrements of a name add up to the number of nodes that
\* have it as a parameter, so the working count ends at 1 for a tracked name
\* that is an additional return and at 0 for any other tracked name.
C7_DecrementsEqualReferences ==
    \A t \in Threads :
        (handler[t] = "MemHandler" /\ Succeeded(t)) =>
            /\ DOMAIN data[t].count = DOMAIN counter
            /\ \A n \in DOMAIN counter :
                  /\ counter[n] - data[t].count[n] = Refs(order, n)
                  /\ data[t].count[n] = IF n \in Range(additional_returns) THEN 1 ELSE 0

C7_Witness ==
    /\ handler["main"] = "MemHandler"
    /\ Succeeded("main")
    /\ \E n \in DOMAIN counter : counter[n] = 3 /\ data["main"].count[n] = 1
    /\ \E n \in DOMAIN counter : counter[n] = 2 /\ data["main"].count[n] = 0

\* two calls ended the same way: both returned values that compare equal (the
\* durable round trip may change the representation of a number, not the
\* number), or both raised the same exception for the same node and cause
SameOutcome(o1, o2) ==
    /\ o1.kind = o2.kind
    /\ o1.shape = o2.shape
    /\ Len(o1.vals) = Len(o2.vals)
    /\ \A j \in DOMAIN o1.vals : o1.vals[j].v = o2.vals[j].v
    /\ o1.exc = o2.exc
    /\ o1.node = o2.node
    /\ o1.attr = o2.attr
    /\ o1.cause = o2.cause

\* the keyword arguments with which all three executors have been called
CalledByAll ==
    DOMAIN results["MemHandler"] \cap DOMAIN results["PlainHandler"]
        \cap DOMAIN results["H5Handler"]

\* C8: for the same keyword arguments the three executors end the call the
\* same way: all return values that compare equal, or all fail at the same
\* node.
C8_SameOutcome ==
    \A kw \in CalledByAll :
        /\ SameOutcome(results["MemHandler"][kw], results["PlainHandler"][kw])
        /\ SameOutcome(results["MemHandler"][kw], results["H5Handler"][kw])

\* C9: a call with keyword arguments that the same executor was called with
\* before starts from a fresh data instance and ends as the first such call
\* ended, whatever calls were made in between.
C9_SameAsFirstCall ==
    \A t \in Threads :
        /\ (pc[t] = "run" /\ i[t] = 1) =>
              /\ handler[t] = "MemHandler" =>
                    data[t] = [NoData EXCEPT !.value_dict = kwargs[t],
                                             !.count = param_counter(graph, additional_returns)]
              /\ handler[t] = "PlainHandler" =>
                    data[t] = [NoData EXCEPT !.value_dict = kwargs[t]]
              /\ handler[t] = "H5Handler" =>
                    DOMAIN file[data[t].exe_group].data = DOMAIN kwargs[t]
        /\ (pc[t] = "done" /\ kwargs[t] \in DOMAIN results[handler[t]]) =>
              outcome[t] = results[handler[t]][kwargs[t]]

C9_Witness ==
    /\ round = 2
    /\ pc["main"] = "done"
    /\ handler["main"] = "H5Handler"
    /\ kwargs["main"] \in DOMAIN results["H5Handler"]
    /\ outcome["main"].kind = "return"
    /\ Cardinality(DOMAIN results["MemHandler"]) = 1

\* C10: when a call on the H5Handler has ended, the file it opened is closed.
C10_HandleClosed ==
    \A t \in Threads :
        (pc[t] = "done" /\ handler[t] = "H5Handler") => handles[data[t].f] = "closed"

\* the positions of a call on the store in the list of such calls
IoAt(t, op) == {k \in DOMAIN io[t] : io[t][k] = op}

\* the call of thread t is on the H5Handler and owns a group
InGroup(t) == handler[t] = "H5Handler" /\ data[t].exe_group # NoGroup

\* C11: under H5Handler, a call in whose loop no node has failed has written
\* no attribute on its group and its file is open; a call that returned has
\* written none either; a call that a failing node ended has written exactly
\* one attribute, which names the node and the class of its error, then has
\* closed the file as its last act on the store, and has raised the exception
\* whose cause is that error.  A step changes the attributes only of the
\* group of the call whose node fails in that step.
C11_NoteThenCloseThenRaise ==
    [][/\ \A t \in Threads : InGroup(t) =>
             LET group == file[data[t].exe_group] IN
             /\ pc[t] = "run" =>
                   /\ group.attrs = EmptyDict
                   /\ IoAt(t, "attrs") = {}
                   /\ IoAt(t, "close") = {}
                   /\ handles[data[t].f] = "open"
             /\ Succeeded(t) => group.attrs = EmptyDict /\ IoAt(t, "attrs") = {}
             /\ (pc[t] = "done" /\ outcome[t].exc = "Exception") =>
                   /\ outcome[t].cause # ""
                   /\ DOMAIN group.attrs = {"note"}
                   /\ group.attrs["note"].node = outcome[t].node
                   /\ group.attrs["note"].attr = order[i[t]]
                   /\ group.attrs["note"].kind = outcome[t].cause
                   /\ IoAt(t, "attrs") = {Len(io[t]) - 1}
                   /\ IoAt(t, "close") = {Len(io[t])}
                   /\ handles[data[t].f] = "closed"
       /\ \A g \in DOMAIN file :
             file'[g].attrs # file[g].attrs =>
                 \E t \in Threads :
                     /\ InGroup(t)
                     /\ data[t].exe_group = g
                     /\ pc[t] = "run"
                     /\ pc'[t] = "done"
                     /\ outcome'[t].exc = "Exception"]_vars

C11_Witness ==
    /\ exe_count = 2
    /\ InGroup("main")
    /\ pc["main"] = "done"
    /\ outcome["main"].cause = "ValueError"
    /\ file[ExeGroupName(1)].attrs = EmptyDict
    /\ DOMAIN file[ExeGroupName(2)].attrs = {"note"}
    /\ io["main"][Len(io["main"])] = "close"

\* the calls the driver has made on the H5Handler
H5Calls == IF turn = Len(Handlers) THEN round ELSE round - 1

\* C12: under serialized calls on the H5Handler, exe_count is the number of
\* calls made on it so far (0 before the first), a step never decreases it and
\* increases it by one exactly when a call on the H5Handler begins, whether
\* or not earlier calls failed; the call number k works in the group named by
\* the identity of the executor and k; and the groups of the calls made so
\* far are k distinct names.
C12_GroupNaming ==
    [][/\ exe_count = H5Calls
       /\ DOMAIN file = {<<"id(self)", k>> : k \in 1 .. exe_count}
       /\ Cardinality(DOMAIN file) = exe_count
       /\ \A t \in Threads : InGroup(t) => data[t].exe_group = <<"id(self)", exe_count>>
       /\ exe_count' \in {exe_count, exe_count + 1}
       /\ exe_count' = exe_count + 1 <=>
              \E t \in Threads :
                  pc[t] = "idle" /\ pc'[t] # "idle" /\ handler'[t] = "H5Handler"]_vars

C12_Witness ==
    /\ exe_count = 2
    /\ InGroup("main")
    /\ data["main"].exe_group = <<"id(self)", 2>>
    /\ Cardinality(DOMAIN file) = 2
    /\ \E kw \in DOMAIN results["H5Handler"] : results["H5Handler"][kw].kind = "raise"

\* C13: when two threads call the H5Handler, the group names of two calls are
\* equal only if another call was inside initiate during the initiate of one
\* of them: calls whose initiate runs alone, as under serialization by the
\* caller, derive names different from every other name.  (The witness is the
\* interleaving in which both calls derive the same name.)
C13_NamesDistinctWhenSerialized ==
    \A j, k \in DOMAIN named :
        (j < k /\ named[j].name = named[k].name) => (~named[j].alone \/ ~named[k].alone)

C13_Witness ==
    /\ Len(named) = 2
    /\ named[1].name = named[2].name
    /\ pc["main"] = "create"
    /\ pc["other"] = "create"
    /\ exe_group_name["main"] = exe_group_name["other"]

\* the value a name has in the data instance of the call
ValueOf(t, n) ==
    IF handler[t] = "H5Handler" THEN file[data[t].exe_group].data[n]
    ELSE data[t].value_dict[n]

\* how often a name occurs in a list
Occurrences(seq, n) == Cardinality({j \in DOMAIN seq : seq[j] = n})

\* C14: self.returns is the list of the declared returns and the additional
\* returns in sorted order; a call that returns gives the bare value of the
\* single name when the list has one entry, and otherwise a tuple with one
\* element per entry, element j the value of entry j, for all three executors.
C14_ReturnShape ==
    /\ \A j, k \in DOMAIN returns : j < k => Ord(returns[j]) <= Ord(returns[k])
    /\ \A n \in Range(Alphabet) :
          Occurrences(returns, n) = Occurrences(model_returns(graph) \o additional_returns, n)
    /\ \A t \in Threads : Succeeded(t) =>
          /\ outcome[t].shape = IF Len(returns) = 1 THEN "value" ELSE "tuple"
          /\ Len(outcome[t].vals) = Len(returns)
          /\ \A j \in DOMAIN returns :
                /\ outcome[t].vals[j].v = ValueOf(t, returns[j]).v
                /\ handler[t] # "H5Handler" => outcome[t].vals[j] = ValueOf(t, returns[j])

C14_Witness ==
    /\ graph.name = "fork"
    /\ Succeeded("main")
    /\ handler["main"] = "H5Handler"
    /\ Len(returns) = 3
    /\ returns # model_returns(graph) \o additional_returns
    /\ kwargs["main"] \in DOMAIN results["MemHandler"]
    /\ results["MemHandler"][kwargs["main"]].shape = "tuple"
    /\ \E j, k \in DOMAIN returns : outcome["main"].vals[j].v # outcome["main"].vals[k].v

\* the names the plan can produce: the returns of its nodes and its external inputs
Producible(g) == AllReturns(g.nodes) \cup model_signature(g)

\* C15: no executor exists whose self.returns has a name that the plan cannot
\* produce, so none is ever called.  Stated for PlainHandler and H5Handler,
\* whose construction hands additional_returns to nothing but the sort.
C15_RequestedProducible ==
    \A t \in Threads :
        (pc[t] # "idle" /\ handler[t] \in {"PlainHandler", "H5Handler"}) =>
            Range(returns) \subseteq Producible(graph)

\* the call has run every node of the plan and has invoked finish
Finished(t) ==
    /\ pc[t] = "done"
    /\ trace[t] # <<>>
    /\ trace[t][Len(trace[t])].op = "finish"

\* C16: for the three executors, when every node of the plan has run and a
\* name of self.returns is not in the data instance, finish raises the error
\* of the missing name (KeyError) and returns no value; when every name is
\* there, finish returns.
C16_MissingValueRaises ==
    \A t \in Threads : Finished(t) =>
        IF \E n \in Range(returns) : n \notin Resolvable(t)
        THEN outcome[t] = Raised("KeyError", "", NoNodeAttr, "")
        ELSE outcome[t].kind = "return"

C16_Witness ==
    /\ Finished("main")
    /\ handler["main"] = "H5Handler"
    /\ outcome["main"].exc = "KeyError"
    /\ Len(returns) = 2
    /\ \E n \in Range(returns) : n \in Resolvable("main")
    /\ kwargs["main"] \in DOMAIN results["MemHandler"]
    /\ results["MemHandler"][kwargs["main"]].exc = "KeyError"
    /\ results["PlainHandler"][kwargs["main"]].exc = "KeyError"

\* the arguments a node of the call gets: the values of its parameters in the
\* data instance (read from the group they are numpy values)
ArgsOf(t, node_attr) ==
    [j \in DOMAIN node_attr.sig |->
        IF handler[t] = "H5Handler"
        THEN [t |-> "np", v |-> file[data[t].exe_group].data[node_attr.sig[j]].v]
        ELSE data[t].value_dict[node_attr.sig[j]]]

\* thread t runs a node in this step and the node does not fail
NodeRan(t) == pc[t] = "run" /\ pc'[t] = "run" /\ i'[t] = i[t] + 1

\* the names and values of the data instance of the call
Stored(t) ==
    IF handler[t] = "H5Handler" THEN file[data[t].exe_group].data
    ELSE data[t].value_dict

\* val is what run_node puts under return name k: element k of the result,
\* or the whole result when there is one name; in the two mappings it has
\* the representation of the result, in the group it is the same numbers
HoldsResult(t, val, rts, res, k) ==
    LET want == IF Len(rts) > 1 THEN res.out[k] ELSE RawOutput(res)
    IN /\ handler[t] # "H5Handler" => val.t = want.t
       /\ val.v = want.v

\* C17 as stated: when a node of a call has run, every one of its return
\* names is in the data instance; with one return name the whole result of
\* the callable is under it, with several, element k is under return name k.
C17_AllReturnNamesStored ==
    [][\A t \in Threads : NodeRan(t) =>
          LET node_attr == order[i[t]]
              rts == node_attr.returns
              res == Obj(node_attr.obj, ArgsOf(t, node_attr))
          IN \A k \in DOMAIN rts :
                /\ rts[k] \in DOMAIN Stored(t)'
                /\ (Len(rts) = 1 \/ k <= Len(res.out)) =>
                       HoldsResult(t, Stored(t)'[rts[k]], rts, res, k)]_vars

\* C17 amended: when a node of a call has run, then with one return name the
\* whole result of the callable was stored under it (a pair stays a pair),
\* and with several return names element k of the result was stored under
\* return name k for every k up to the length of the result; a return name
\* beyond the length of the result is not written and is in the data instance
\* only if it was there before, with the value it had.  A written name is in
\* the data instance after the node, except under MemHandler when it is also
\* a parameter of the node and the node brought its count to zero: then it
\* has been deleted again.
C17_StoreShape ==
    [][\A t \in Threads : NodeRan(t) =>
          LET node_attr == order[i[t]]
              rts == node_attr.returns
              res == Obj(node_attr.obj, ArgsOf(t, node_attr))
              evicted(r) == /\ handler[t] = "MemHandler"
                            /\ r \in Range(node_attr.sig)
                            /\ data'[t].count[r] = 0
          IN /\ res.err = ""
             /\ \A k \in DOMAIN rts :
                   IF Len(rts) = 1 \/ k <= Len(res.out)
                   THEN /\ rts[k] \in DOMAIN Stored(t)' <=> ~evicted(rts[k])
                        /\ rts[k] \in DOMAIN Stored(t)' =>
                               HoldsResult(t, Stored(t)'[rts[k]], rts, res, k)
                   ELSE /\ rts[k] \in DOMAIN Stored(t)' <=> rts[k] \in DOMAIN Stored(t)
                        /\ rts[k] \in DOMAIN Stored(t) =>
                               Stored(t)'[rts[k]] = Stored(t)[rts[k]]]_vars

\* the pair of split was stored under the first two of three return names,
\* and the same call on the graph whose node returns its own parameter has
\* been made on the MemHandler
C17_Witness ==
    /\ graph.name = "short"
    /\ handler["main"] = "PlainHandler"
    /\ pc["main"] = "run"
    /\ i["main"] = 2
    /\ {"c", "d"} \subseteq DOMAIN data["main"].value_dict
    /\ "k" \notin DOMAIN data["main"].value_dict
    /\ "k" \in Range(order[1].returns)
    /\ kwargs["main"] \in DOMAIN results["MemHandler"]

\* the nodes of the plan that the call has not run and that have the parameter
RemainingConsumers(t, n) ==
    Cardinality({j \in DOMAIN order : j >= i[t] /\ n \in Range(order[j].sig)})

\* C18: under MemHandler, between the nodes of a call and after its end, the
\* working count of every tracked name is the number of nodes still to run
\* that consume it, plus one if the name is in self.returns; it is never
\* negative; and a step in which the node fails leaves the counts and the
\* values as they were.
C18_CountIsRemainingUse ==
    [][\A t \in Threads :
          (handler[t] = "MemHandler" /\ pc[t] \in {"run", "done"}) =>
              /\ DOMAIN data[t].count = DOMAIN counter
              /\ \A n \in DOMAIN counter :
                    /\ data[t].count[n] =
                          RemainingConsumers(t, n) + (IF n \in Range(returns) THEN 1 ELSE 0)
                    /\ data[t].count[n] >= 0
              /\ (pc[t] = "run" /\ pc'[t] = "done" /\ outcome'[t].exc = "Exception") =>
                    /\ data'[t] = data[t]
                    /\ i'[t] = i[t]]_vars

C18_Witness ==
    /\ handler["main"] = "MemHandler"
    /\ pc["main"] = "done"
    /\ outcome["main"].exc = "Exception"
    /\ i["main"] = 2
    /\ \E n \in DOMAIN counter : data["main"].count[n] = 3
    /\ \E n \in DOMAIN counter : data["main"].count[n] = 0 /\ n \notin DOMAIN data["main"].value_dict

\* what a call on the MemHandler or the PlainHandler gives when it runs with no
\* other call beside it: the loop over the plan from node j on, then finish
RECURSIVE LoopAlone(_, _, _)
LoopAlone(h, d, j) ==
    IF j > Len(order) THEN DictFinish(d.value_dict, returns)
    ELSE LET ran == IF h = "MemHandler" THEN MemRunNode(d, order[j])
                    ELSE PlainRunNode(d, order[j])
         IN IF ran.err # "" THEN Raised("Exception", order[j].node, order[j], ran.err)
            ELSE LoopAlone(h, ran.data, j + 1)

RunAlone(h, kw) ==
    LoopAlone(h, [NoData EXCEPT !.value_dict = kw,
                                !.count = IF h = "MemHandler" THEN counter ELSE EmptyDict], 1)

\* the call of thread t is on one of the two in-memory executors
InMemory(t) == handler[t] \in {"MemHandler", "PlainHandler"}

\* C19: when the calls of two threads on the MemHandler and the PlainHandler
\* interleave node by node, no step changes self.counter, self.order or
\* self.returns, which stay as the constructor made them; the data instance
\* of a call changes only in the steps of that call; and a call ends as it
\* would have ended running alone with its keyword arguments.
C19_CallsIsolated ==
    [][/\ <<counter, order, returns>>' = <<counter, order, returns>>
       /\ counter = param_counter(graph, additional_returns)
       /\ order = graph_topological_sort(graph)
       /\ \A t \in Threads : InMemory(t) =>
             /\ data'[t] # data[t] => (pc'[t] # pc[t] \/ i'[t] # i[t])
             /\ pc[t] = "done" => outcome[t] = RunAlone(handler[t], kwargs[t])]_vars

C19_Witness ==
    /\ handler["main"] = "MemHandler"
    /\ handler["other"] = "MemHandler"
    /\ pc["main"] = "run"
    /\ pc["other"] = "run"
    /\ i["main"] = 2
    /\ i["other"] = 3
    /\ kwargs["main"] # kwargs["other"]
    /\ \E n \in DOMAIN counter : data["main"].count[n] # data["other"].count[n]
    /\ \E n \in DOMAIN data["main"].value_dict \cap DOMAIN data["other"].value_dict :
          data["main"].value_dict[n] # data["other"].value_dict[n]

\* C20: no step removes or changes a dataset of a group.  When a node of an
\* H5Handler call gets its arguments, its callable returns, and one of its
\* return names is already in the group, the step ends the call as a failure
\* of that node: the note is written, the file is closed and the exception
\* with the ValueError of the write as cause is raised.  The same node under
\* MemHandler and PlainHandler runs, the call goes on, and the name holds the
\* new result.
C20_WriteOnce ==
    [][/\ \A g \in DOMAIN file : \A n \in DOMAIN file[g].data :
             /\ g \in DOMAIN file'
             /\ n \in DOMAIN file'[g].data
             /\ file'[g].data[n] = file[g].data[n]
       /\ \A t \in Threads :
             (/\ pc[t] = "run"
              /\ i[t] \in DOMAIN order
              /\ (pc'[t] # pc[t] \/ i'[t] # i[t])
              /\ Range(order[i[t]].sig) \subseteq Resolvable(t)
              /\ Obj(order[i[t]].obj, ArgsOf(t, order[i[t]])).err = ""
              /\ Range(order[i[t]].returns) \cap Resolvable(t) # {}) =>
                 LET node_attr == order[i[t]]
                     res == Obj(node_attr.obj, ArgsOf(t, node_attr))
                 IN IF handler[t] = "H5Handler"
                    THEN /\ pc'[t] = "done"
                         /\ outcome'[t] =
                               Raised("Exception", node_attr.node, node_attr, "ValueError")
                         /\ DOMAIN file'[data[t].exe_group].attrs = {"note"}
                         /\ handles'[data[t].f] = "closed"
                    ELSE /\ pc'[t] = "run"
                         /\ i'[t] = i[t] + 1
                         /\ \A k \in DOMAIN node_attr.returns :
                               LET r == node_attr.returns[k] IN
                               r \in DOMAIN data'[t].value_dict =>
                                   data'[t].value_dict[r] =
                                       IF Len(node_attr.returns) = 1 THEN RawOutput(res)
                                       ELSE res.out[k]]_vars

C20_Witness ==
    /\ InGroup("main")
    /\ pc["main"] = "done"
    /\ outcome["main"].cause = "ValueError"
    /\ i["main"] = 2
    /\ order[2].returns[1] \in Range(order[1].returns)
    /\ order[2].returns[1] \notin DOMAIN kwargs["main"]
    /\ order[1].returns[1] \in DOMAIN file[data["main"].exe_group].data
    /\ kwargs["main"] \in DOMAIN results["MemHandler"]
    /\ results["MemHandler"][kwargs["main"]].kind = "return"
    /\ results["PlainHandler"][kwargs["main"]].kind = "return"

====
